---- MODULE Spec2Model ----
(***************************************************************************)
(* Model of src/src/core/client.py (OpenAIClient) and of the part of       *)
(* src/src/core/usage_stats.py it drives.                                  *)
(*                                                                         *)
(* Every call of create_chat_completion / create_chat_completion_stream is *)
(* one process c \in Calls.  A call that passes a request id creates its   *)
(* own asyncio.Event; the event created by call c is identified with c,    *)
(* evSet[c] is its flag, and active_requests maps a request id to the      *)
(* event (the call index) currently stored under it.  Steps are the code   *)
(* between two suspension points (await / yield) of the coroutine.         *)
(*                                                                         *)
(* Specifications:                                                         *)
(*   Spec          concurrent calls and cancel_request                     *)
(*   SpecObserved  one call, with the histories seen, sink and log         *)
(*   SpecSink      threads in append_usage_tsv on a file that is absent    *)
(*   SpecLine      one append_usage_tsv call with any record               *)
(*   SpecClassify  classify_openai_error on any error text                 *)
(***************************************************************************)
EXTENDS Integers, Sequences, FiniteSets, TLC

\* ------------------------------------------------------------------ bounds
NumCalls == 2
NumIds == 2
MaxChunks == 2
MaxTok == 1
NumWriters == 2
MaxLen == 2
MaxOdd == 2
MaxWords == 3

Calls == 1..NumCalls
\* request_id is None or "" (both falsy at `if request_id:`) or a real id
NoId == 0
Ids == 1..NumIds
RequestIds == {NoId} \cup Ids

\* ------------------------------------------------------------- upstream data
\* An optional value is a sequence of length 0 (None / absent) or 1.
Tok == 0..MaxTok
\* The usage block of a completion or chunk.  prompt_tokens_details is absent
\* or carries cached_tokens, between 1 and prompt_tokens (a block that says
\* cached_tokens = 0 is read as 0 like an absent one).
UsageBlocks ==
  { b \in [prompt_tokens : Tok, completion_tokens : Tok,
           prompt_tokens_details : {<<>>} \cup { <<k>> : k \in Tok }] :
      \/ b.prompt_tokens_details = <<>>
      \/ /\ b.prompt_tokens_details[1] >= 1
         /\ b.prompt_tokens_details[1] <= b.prompt_tokens }
Usages == {<<>>} \cup { <<b>> : b \in UsageBlocks }

\* The exception classes the handlers tell apart.  "api" is an APIError that
\* carries status_code 503, "apinostatus" one without the attribute,
\* "other" any other Exception raised by the upstream call.
UpstreamStatus == 503
Failures == {"auth", "ratelimit", "badrequest", "api", "apinostatus", "other"}
\* raise HTTPException(status_code=499, ...) inside the try block
Cancelled499 == "cancelled499"

\* What the upstream call of a non-streaming request produced: a completion
\* with usage option u, or exception f.  Nothing reads it before the caller
\* awaits completion_task, so it is drawn at that point.
UpOk(u) == [st |-> "ok", usage |-> u, err |-> ""]
UpErr(f) == [st |-> "error", usage |-> <<>>, err |-> f]
UpResults == { UpOk(u) : u \in Usages } \cup { UpErr(f) : f \in Failures }

\* -------------------------------------------------------------------- state
VARIABLES
  active_requests,  \* request id -> the call whose event is stored under it
  evSet,            \* evSet[c]: is_set() of the event created by call c
  pc,               \* where call c is suspended
  kind,             \* "none" | "completion" | "stream"
  rid,              \* the request_id argument of call c
  up,               \* completion_task of c: "pending" | "done" | "abandoned"
  cancelWon,        \* non-streaming: cancel_task is in the done set
  last_usage,       \* streaming: the local last_usage, as an option
  received,         \* streaming: chunks produced by upstream so far
  events,           \* streaming: what the generator has yielded so far
  usage,            \* records call c has passed to append_usage_tsv
  outcome,          \* how the call ended, as seen by its caller
  cancelRet,        \* what the latest cancel_request call returned
  asked,            \* history: was cancel_request(rid[c]) called while call c
                    \* was registered and before its join point / next check:
                    \* "no", "missed" (c's event was not the one stored under
                    \* the id) or "hit" (it set c's event)
  observed,         \* the calls whose histories seen and sink are kept
  seen,             \* history: chunk_dict.get("usage") of every chunk an
                    \* observed stream has received and yielded, in order
  sink,             \* history: what append_usage_tsv did with the record of
                    \* an observed call: "none" yet, "written", or "failed"
                    \* (the write raised, which was logged and swallowed)
  released,         \* history: the finally clause of call c found the id of
                    \* c stored and deleted the entry
  log,              \* history: the observable steps of an observed call, in
                    \* order: "enter", "success" or "fail" (the log lines),
                    \* "usage" (the record is handed to append_usage_tsv),
                    \* "release" (the finally clause deletes the entry)
  \* usage_stats.py: the usage file and the threads in append_usage_tsv
  file,             \* the lines of the usage file, or Absent
  file_lock,        \* _file_lock: the writer holding it, or NoWriter
  wpc,              \* where writer w is in append_usage_tsv
  record,           \* the record argument of writer w
  file_exists,      \* the local file_exists of writer w
  line,             \* the local line of writer w
  \* classify_openai_error
  error_detail,     \* the argument, a text
  classified        \* the value returned, as an option

sinkVars == <<file, file_lock, wpc, record, file_exists, line>>
classifyVars == <<error_detail, classified>>
clientVars == <<active_requests, evSet, pc, kind, rid, up, cancelWon, last_usage,
                received, events, usage, outcome, cancelRet, asked, observed, seen,
                sink, released, log>>
vars == <<clientVars, sinkVars, classifyVars>>

callVars == <<pc, kind, rid, up, cancelWon, last_usage, received, events, usage,
              outcome, observed, seen, sink, released, log>>
InFlight(c) == pc[c] \notin {"idle", "done"}

\* ------------------------------------------------------------ error handlers
\* Which except clause catches exception x, as the tag put in the usage
\* record.  HTTPException is an Exception and no APIError, so the 499 raised
\* in the try block lands in the last clause.
ExceptTag(x) ==
  CASE x = "auth" -> "auth"
    [] x = "ratelimit" -> "ratelimit"
    [] x = "badrequest" -> "badrequest"
    [] x \in {"api", "apinostatus"} -> "api"
    [] OTHER -> "unexpected"

\* a slip: the generic clause ignores the status the upstream sent
ExceptStatusFlat(x) ==
  CASE x = "auth" -> 401
    [] x = "ratelimit" -> 429
    [] x = "badrequest" -> 400
    [] OTHER -> 500

\* The status_code of the HTTPException the matching except clause raises.
ExceptStatus(x) ==
  CASE x = "auth" -> 401
    [] x = "ratelimit" -> 429
    [] x = "badrequest" -> 400
    [] x = "api" -> UpstreamStatus
    [] x = "apinostatus" -> 500
    [] OTHER -> 500

\* ------------------------------------------------------------- usage records
Field(u, name) == IF u = <<>> THEN 0 ELSE u[1][name]
CachedTokens(u) ==
  IF u = <<>> THEN 0
  ELSE IF u[1].prompt_tokens_details = <<>> THEN 0 ELSE u[1].prompt_tokens_details[1]

\* a slip: the total leaves the output tokens out
TotalTokensInputOnly(input_tokens, output_tokens) == input_tokens

\* "total_tokens": (input_tokens or 0) + (output_tokens or 0)
TotalTokens(input_tokens, output_tokens) == input_tokens + output_tokens

\* The error column: "" on success, f"<tag>:{str(e)}" in an except clause.
NoError == [tag |-> "", msg |-> ""]

SuccessRecord(id, isStream, u) ==
  [request_id |-> id, is_stream |-> isStream,
   input_tokens |-> Field(u, "prompt_tokens"),
   output_tokens |-> Field(u, "completion_tokens"),
   cache_read_input_tokens |-> CachedTokens(u),
   total_tokens |-> TotalTokens(Field(u, "prompt_tokens"), Field(u, "completion_tokens")),
   status |-> "success", error |-> NoError]

\* a slip: an except clause that does not zero the total
ErrorRecordStaleTotal(id, isStream, x) ==
  [request_id |-> id, is_stream |-> isStream,
   input_tokens |-> 0, output_tokens |-> 0, cache_read_input_tokens |-> 0,
   total_tokens |-> IF x = "ratelimit" THEN 1 ELSE 0, status |-> "error",
   error |-> [tag |-> ExceptTag(x), msg |-> x]]

\* The record every except clause passes to append_usage_tsv.
ErrorRecord(id, isStream, x) ==
  [request_id |-> id, is_stream |-> isStream,
   input_tokens |-> 0, output_tokens |-> 0, cache_read_input_tokens |-> 0,
   total_tokens |-> 0, status |-> "error",
   error |-> [tag |-> ExceptTag(x), msg |-> x]]

\* ------------------------------------------------------------------ registry
\* a slip: the event is stored whether or not a request id was given
RegisterAlways(reg, id, c) ==
  [i \in DOMAIN reg \cup {id} |-> IF i = id THEN c ELSE reg[i]]

\* self.active_requests[request_id] = cancel_event
Register(reg, id, c) ==
  IF id = NoId THEN reg
  ELSE [i \in DOMAIN reg \cup {id} |-> IF i = id THEN c ELSE reg[i]]

\* a slip: the entry of a cancelled request is left behind
ReleaseUnlessCancelled(reg, id) ==
  IF id # NoId /\ id \in DOMAIN reg /\ ~evSet[reg[id]]
  THEN [i \in DOMAIN reg \ {id} |-> reg[i]]
  ELSE reg

\* finally: if request_id and request_id in self.active_requests: del ...
Release(reg, id) ==
  IF id # NoId /\ id \in DOMAIN reg
  THEN [i \in DOMAIN reg \ {id} |-> reg[i]]
  ELSE reg

\* a slip: the event is kept per id and not cleared, so a new call inherits
\* the flag of an earlier call with the same id
NewEventLeaky(ev, id, c) ==
  [ev EXCEPT ![c] = \E d \in DOMAIN ev : d # c /\ rid[d] = id /\ ev[d]]

\* cancel_event = asyncio.Event(): the event of call c, created not set
NewEvent(ev, id, c) == [ev EXCEPT ![c] = FALSE]

\* cancel_request: whether request_id is in self.active_requests
CancelFound(reg, id) == id \in DOMAIN reg

\* a slip: every stored event is set, whatever the id
CancelSetAll(reg, ev, id) ==
  [c \in DOMAIN ev |-> ev[c] \/ \E i \in DOMAIN reg : reg[i] = c]

\* cancel_request: self.active_requests[request_id].set()
CancelSet(reg, ev, id) ==
  IF id \in DOMAIN reg THEN [ev EXCEPT ![reg[id]] = TRUE] ELSE ev

\* streaming: the check made before a received chunk is yielded; it looks the
\* event up in the registry again
StreamCancelSeen(reg, ev, id) ==
  id # NoId /\ id \in DOMAIN reg /\ ev[reg[id]]

\* f"data: {chunk_json}" for the k-th chunk, and "data: [DONE]"
ChunkEvent(k) == [data |-> "chunk", seq |-> k]
DoneEvent == [data |-> "[DONE]", seq |-> 0]

\* last_usage as the streaming call initialises it
InitialUsage ==
  <<[prompt_tokens |-> 0, completion_tokens |-> 0, prompt_tokens_details |-> <<>>]>>

\* a slip: the first usage block is kept and later ones are dropped
TrackUsageFirst(last, u) == IF u # <<>> /\ last = InitialUsage THEN u ELSE last

\* usage = chunk_dict.get("usage"); if usage: last_usage = usage
TrackUsage(last, u) == IF u # <<>> THEN u ELSE last

\* ------------------------------------------------------------ usage_stats.py
\* A text is a sequence of characters.  "a" stands for any character that is
\* neither a tab nor a newline; a column name is one symbol of the header.
TAB == "\t"
NL == "\n"
SP == " "
Chars == {"a", TAB, NL}
Texts == UNION { [1..n -> Chars] : n \in 0..MaxLen }

\* _TSV_HEADER_COLUMNS
ColumnNames ==
  <<"timestamp", "request_id", "is_stream", "model", "base_url", "api_type",
    "input_tokens", "output_tokens", "cache_read_input_tokens", "total_tokens",
    "latency_ms", "status", "error">>
Columns == { ColumnNames[i] : i \in DOMAIN ColumnNames }

\* What a record holds for a key: nothing (the key is missing), None, or a
\* value whose str() is the text t.
Missing == [k |-> "missing", t |-> <<>>]
None == [k |-> "none", t |-> <<>>]
Value(t) == [k |-> "str", t |-> t]
FieldValues == {Missing, None} \cup { Value(t) : t \in Texts }

\* The record whose fields are all the plain text "a".
PlainRecord == [key \in Columns |-> Value(<<"a">>)]

\* The records that differ from PlainRecord in at most MaxOdd columns.
RECURSIVE OddRecords(_)
OddRecords(n) ==
  IF n = 0 THEN {PlainRecord}
  ELSE { [r EXCEPT ![key] = v] :
           r \in OddRecords(n - 1), key \in Columns, v \in FieldValues }
Records == OddRecords(MaxOdd)

\* value = record.get(key, ""); if value is None: value = ""; str(value)
Str(v) == IF v.k = "str" THEN v.t ELSE <<>>

\* a slip: only tabs are replaced
SanitizeTabsOnly(t) == [i \in DOMAIN t |-> IF t[i] = TAB THEN SP ELSE t[i]]

\* .replace("\t", " ").replace("\n", " ")
Sanitize(t) == [i \in DOMAIN t |-> IF t[i] \in {TAB, NL} THEN SP ELSE t[i]]

\* "\t".join(fs[1..n])
RECURSIVE JoinTab(_, _)
JoinTab(fs, n) ==
  IF n = 0 THEN <<>>
  ELSE IF n = 1 THEN fs[1]
  ELSE JoinTab(fs, n - 1) \o <<TAB>> \o fs[n]

\* line = "\t".join(linestr_values) + "\n"
FormatLine(r) ==
  JoinTab([i \in DOMAIN ColumnNames |-> Sanitize(Str(r[ColumnNames[i]]))],
          Len(ColumnNames)) \o <<NL>>

\* header = "\t".join(_TSV_HEADER_COLUMNS) + "\n"
HeaderLine ==
  JoinTab([i \in DOMAIN ColumnNames |-> <<ColumnNames[i]>>], Len(ColumnNames)) \o <<NL>>

\* The usage file before it is created, and the free lock.
Absent == [exists |-> FALSE, lines |-> <<>>]
NoWriter == 0
Writers == 1..NumWriters

\* No thread is in append_usage_tsv and there is no file.
SinkAtRest ==
  /\ file = Absent
  /\ file_lock = NoWriter
  /\ wpc = [w \in Writers |-> "done"]
  /\ record = [w \in Writers |-> PlainRecord]
  /\ file_exists = [w \in Writers |-> FALSE]
  /\ line = [w \in Writers |-> <<>>]

\* ----------------------------------------------------- classify_openai_error
\* An error text is a sequence of pieces; a piece is one of the phrases the
\* function looks for, or some other word, spelt in lower or in upper case.
Phrases ==
  {"unsupported_country_region_territory",
   "country, region, or territory not supported",
   "invalid_api_key", "unauthorized", "rate_limit", "quota", "model",
   "not found", "does not exist", "billing", "payment", "other"}
Pieces == [w : Phrases, upper : BOOLEAN]
ErrorTexts == UNION { [1..n -> Pieces] : n \in 0..MaxWords }

\* str(error_detail).lower()
Lower(t) == [i \in DOMAIN t |-> [t[i] EXCEPT !.upper = FALSE]]

\* phrase in error_str
Contains(t, phrase) == \E i \in DOMAIN t : t[i] = [w |-> phrase, upper |-> FALSE]

RegionAdvice ==
  "OpenAI API is not available in your region. Consider using a VPN or Azure OpenAI service."
KeyAdvice == "Invalid API key. Please check your OPENAI_API_KEY configuration."
RateAdvice ==
  "Rate limit exceeded. Please wait and try again, or upgrade your API plan."
ModelAdvice ==
  "Model not found. Please check your BIG_MODEL and SMALL_MODEL configuration."
BillingAdvice == "Billing issue. Please check your OpenAI account billing status."

\* What the function returns: one of the advice messages, or the text.
Advice(m) == [advice |-> m, text |-> <<>>]
Raw(t) == [advice |-> "", text |-> t]

\* a slip: the rate-limit rule is tested before the credentials rule
classify_rate_first(detail) ==
  LET error_str == Lower(detail)
  IN IF \/ Contains(error_str, "unsupported_country_region_territory")
        \/ Contains(error_str, "country, region, or territory not supported")
     THEN Advice(RegionAdvice)
     ELSE IF Contains(error_str, "rate_limit") \/ Contains(error_str, "quota")
     THEN Advice(RateAdvice)
     ELSE IF Contains(error_str, "invalid_api_key") \/ Contains(error_str, "unauthorized")
     THEN Advice(KeyAdvice)
     ELSE IF /\ Contains(error_str, "model")
             /\ Contains(error_str, "not found") \/ Contains(error_str, "does not exist")
     THEN Advice(ModelAdvice)
     ELSE IF Contains(error_str, "billing") \/ Contains(error_str, "payment")
     THEN Advice(BillingAdvice)
     ELSE Raw(detail)

classify_openai_error(detail) ==
  LET error_str == Lower(detail)
  IN IF \/ Contains(error_str, "unsupported_country_region_territory")
        \/ Contains(error_str, "country, region, or territory not supported")
     THEN Advice(RegionAdvice)
     ELSE IF Contains(error_str, "invalid_api_key") \/ Contains(error_str, "unauthorized")
     THEN Advice(KeyAdvice)
     ELSE IF Contains(error_str, "rate_limit") \/ Contains(error_str, "quota")
     THEN Advice(RateAdvice)
     ELSE IF /\ Contains(error_str, "model")
             /\ Contains(error_str, "not found") \/ Contains(error_str, "does not exist")
     THEN Advice(ModelAdvice)
     ELSE IF Contains(error_str, "billing") \/ Contains(error_str, "payment")
     THEN Advice(BillingAdvice)
     ELSE Raw(detail)

\* classify_openai_error is not being called.
ClassifierAtRest ==
  /\ error_detail = <<>>
  /\ classified = <<>>

\* ----------------------------------------------------------------- outcomes
\* What the caller of a call gets: nothing yet, the returned completion (its
\* usage option), an HTTPException with its status_code and the exception
\* its detail spells out, or a generator it closed itself.
NoOutcome == [st |-> "none", status |-> 0, exc |-> "", usage |-> <<>>]
Returned(u) == [st |-> "returned", status |-> 0, exc |-> "", usage |-> u]
Raised(s, x) == [st |-> "raised", status |-> s, exc |-> x, usage |-> <<>>]
Closed == [st |-> "closed", status |-> 0, exc |-> "", usage |-> <<>>]
KeyErrorRaised == [st |-> "keyerror", status |-> 0, exc |-> "", usage |-> <<>>]

\* a slip: the del is not guarded by the membership test
ReleaseRaisesUnguarded(reg, id) == id # NoId /\ id \notin DOMAIN reg

\* finally: whether `del self.active_requests[request_id]` is run with the
\* id absent, which raises KeyError; the del is run when the if holds
ReleaseRaises(reg, id) ==
  LET found == id # NoId /\ id \in DOMAIN reg
  IN found /\ id \notin DOMAIN reg

\* What the caller gets once the finally clause has run after outcome o: an
\* exception raised in it takes the place of o.
Finally(o, reg, id) == IF ReleaseRaises(reg, id) THEN KeyErrorRaised ELSE o

ClientInit ==
  /\ active_requests = <<>>
  /\ evSet = [c \in Calls |-> FALSE]
  /\ pc = [c \in Calls |-> "idle"]
  /\ kind = [c \in Calls |-> "none"]
  /\ rid = [c \in Calls |-> NoId]
  /\ up = [c \in Calls |-> "pending"]
  /\ cancelWon = [c \in Calls |-> FALSE]
  /\ last_usage = [c \in Calls |-> <<>>]
  /\ received = [c \in Calls |-> 0]
  /\ events = [c \in Calls |-> <<>>]
  /\ usage = [c \in Calls |-> <<>>]
  /\ outcome = [c \in Calls |-> NoOutcome]
  /\ cancelRet = FALSE
  /\ asked = [c \in Calls |-> "no"]
  /\ observed = {}
  /\ seen = [c \in Calls |-> <<>>]
  /\ sink = [c \in Calls |-> "none"]
  /\ log = [c \in Calls |-> <<>>]
  /\ released = [c \in Calls |-> FALSE]

\* The client is constructed; append_usage_tsv and classify_openai_error are
\* taken as single steps of its calls.
Init == ClientInit /\ SinkAtRest /\ ClassifierAtRest

\* ------------------------------------------------------ terminal code paths
\* The steps an observed call takes are appended to its log.
Observe(lg, c, steps) ==
  IF c \in observed THEN [lg EXCEPT ![c] = @ \o steps] ELSE lg

\* finally: the del is a step of the call when the id is found stored.
ReleaseStep(reg, id) ==
  IF id # NoId /\ id \in DOMAIN reg THEN <<"release">> ELSE <<>>

\* append_usage_tsv(record) of call c returns: the line was written (ok), or
\* the write raised and the except clause logged and swallowed it.
AppendUsage(snk, c, ok) ==
  IF c \in observed THEN [snk EXCEPT ![c] = IF ok THEN "written" ELSE "failed"]
  ELSE snk

\* The call ends: the finally clause releases the id and the frame of the
\* coroutine (its locals) is gone.
Leave(c) ==
  /\ UNCHANGED <<up, observed, seen, sinkVars, classifyVars>>
  /\ active_requests' = Release(active_requests, rid[c])
  /\ released' = [released EXCEPT ![c] = ReleaseStep(active_requests, rid[c]) # <<>>]
  /\ pc' = [pc EXCEPT ![c] = "done"]
  /\ cancelWon' = [cancelWon EXCEPT ![c] = FALSE]
  /\ last_usage' = [last_usage EXCEPT ![c] = <<>>]
  /\ asked' = [asked EXCEPT ![c] = "no"]

\* One of the except clauses, then the finally clause: the error record is
\* passed to append_usage_tsv and the HTTPException is raised.
Fail(c, x, isStream) ==
  /\ usage' = [usage EXCEPT ![c] = Append(@, ErrorRecord(rid[c], isStream, x))]
  /\ \E ok \in BOOLEAN : sink' = AppendUsage(sink, c, ok)
  /\ outcome' = [outcome EXCEPT ![c] =
       Finally(Raised(ExceptStatus(x), x), active_requests, rid[c])]
  /\ log' = Observe(log, c, <<"fail", "usage">> \o ReleaseStep(active_requests, rid[c]))
  /\ Leave(c)

\* a slip: a failed write of the success record is not swallowed but
\* reaches the last except clause
SucceedUnlessSinkFails(c, u, isStream) ==
  /\ usage' = [usage EXCEPT ![c] = Append(@, SuccessRecord(rid[c], isStream, u))]
  /\ \E ok \in BOOLEAN :
       /\ sink' = AppendUsage(sink, c, ok)
       /\ outcome' = [outcome EXCEPT ![c] =
            IF ok THEN Returned(IF isStream THEN <<>> ELSE u)
            ELSE Raised(ExceptStatus("other"), "other")]
  /\ log' = Observe(log, c, <<"success", "usage">> \o ReleaseStep(active_requests, rid[c]))
  /\ Leave(c)

\* The success tail (usage extraction, success record, return), then finally.
Succeed(c, u, isStream) ==
  /\ usage' = [usage EXCEPT ![c] = Append(@, SuccessRecord(rid[c], isStream, u))]
  /\ \E ok \in BOOLEAN : sink' = AppendUsage(sink, c, ok)
  /\ outcome' = [outcome EXCEPT ![c] =
       Finally(Returned(IF isStream THEN <<>> ELSE u), active_requests, rid[c])]
  /\ log' = Observe(log, c, <<"success", "usage">> \o ReleaseStep(active_requests, rid[c]))
  /\ Leave(c)

\* Calls are interchangeable: they are started in index order.
MayStart(c) == pc[c] = "idle" /\ \A d \in Calls : d < c => pc[d] # "idle"

\* --------------------------------------------------- create_chat_completion
\* Entry up to the first suspension: register the event, create the
\* completion task, and either wait on both tasks or await the task.
create_chat_completion(c, id) ==
  /\ MayStart(c)
  /\ kind' = [kind EXCEPT ![c] = "completion"]
  /\ rid' = [rid EXCEPT ![c] = id]
  /\ active_requests' = Register(active_requests, id, c)
  /\ evSet' = IF id # NoId THEN NewEvent(evSet, id, c) ELSE evSet
  /\ pc' = [pc EXCEPT ![c] = IF id # NoId THEN "wait" ELSE "await"]
  /\ log' = Observe(log, c, <<"enter">>)
  /\ UNCHANGED <<up, cancelWon, last_usage, received, events, usage, outcome,
                 cancelRet, asked, observed, seen, sink, released>>
  /\ UNCHANGED <<sinkVars, classifyVars>>

\* completion_task finishes: the upstream call returns or raises.
UpstreamDone(c) ==
  /\ kind[c] = "completion"
  /\ pc[c] \in {"wait", "notified", "await"}
  /\ up[c] = "pending"
  /\ up' = [up EXCEPT ![c] = "done"]
  /\ UNCHANGED <<active_requests, evSet, pc, kind, rid, cancelWon, last_usage,
                 received, events, usage, outcome, cancelRet, asked, observed, seen,
                 sink, released, log>>
  /\ UNCHANGED <<sinkVars, classifyVars>>

\* a slip: the upstream result is preferred when both tasks are done
WaitNotifyUpstreamFirst(c) ==
  /\ pc[c] = "wait"
  /\ up[c] = "done" \/ evSet[c]
  /\ cancelWon' = [cancelWon EXCEPT ![c] = evSet[c] /\ up[c] # "done"]
  /\ pc' = [pc EXCEPT ![c] = "notified"]
  /\ UNCHANGED <<active_requests, evSet, kind, rid, up, last_usage, received,
                 events, usage, outcome, cancelRet, asked, observed, seen, sink, released, log>>
  /\ UNCHANGED <<sinkVars, classifyVars>>

\* asyncio.wait(..., FIRST_COMPLETED) is notified that one of the two tasks
\* is done.  The event loop runs callbacks first in, first out: cancel_task
\* is in the done set when the caller resumes iff the event was set before
\* this notification.
WaitNotify(c) ==
  /\ pc[c] = "wait"
  /\ up[c] = "done" \/ evSet[c]
  /\ cancelWon' = [cancelWon EXCEPT ![c] = evSet[c]]
  /\ pc' = [pc EXCEPT ![c] = "notified"]
  /\ UNCHANGED <<active_requests, evSet, kind, rid, up, last_usage, received,
                 events, usage, outcome, cancelRet, asked, observed, seen, sink, released, log>>
  /\ UNCHANGED <<sinkVars, classifyVars>>

\* The caller resumes after asyncio.wait with both tasks done: nothing is
\* pending, `cancel_task in done` holds and the 499 is raised at once.
WaitBothDone(c) ==
  /\ pc[c] = "notified"
  /\ cancelWon[c] /\ up[c] = "done"
  /\ Fail(c, Cancelled499, FALSE)
  /\ UNCHANGED <<evSet, kind, rid, received, events, cancelRet>>

\* The caller resumes after asyncio.wait with one task pending: that task is
\* cancelled and awaited, which suspends the caller once more.
WaitResume(c) ==
  /\ pc[c] = "notified"
  /\ ~(cancelWon[c] /\ up[c] = "done")
  /\ pc' = [pc EXCEPT ![c] = "joined"]
  /\ up' = [up EXCEPT ![c] = IF cancelWon[c] THEN "abandoned" ELSE @]
  /\ UNCHANGED <<active_requests, evSet, kind, rid, cancelWon, last_usage,
                 received, events, usage, outcome, cancelRet, asked, observed, seen,
                 sink, released, log>>
  /\ UNCHANGED <<sinkVars, classifyVars>>

\* After the pending task is torn down: `if cancel_task in done:` cancels
\* completion_task and raises the 499.
WaitCancelled(c) ==
  /\ pc[c] = "joined"
  /\ cancelWon[c]
  /\ Fail(c, Cancelled499, FALSE)
  /\ UNCHANGED <<evSet, kind, rid, received, events, cancelRet>>

\* ... else `completion = await completion_task`: the success tail, or the
\* exception of the upstream call.
WaitFinish(c, r) ==
  /\ pc[c] = "joined"
  /\ ~cancelWon[c]
  /\ IF r.st = "ok" THEN Succeed(c, r.usage, FALSE)
     ELSE Fail(c, r.err, FALSE)
  /\ UNCHANGED <<evSet, kind, rid, received, events, cancelRet>>

\* No request id: `completion = await completion_task`.
AwaitFinish(c, r) ==
  /\ pc[c] = "await"
  /\ up[c] = "done"
  /\ IF r.st = "ok" THEN Succeed(c, r.usage, FALSE)
     ELSE Fail(c, r.err, FALSE)
  /\ UNCHANGED <<evSet, kind, rid, received, events, cancelRet>>

\* ------------------------------------------------------------ cancel_request
cancel_request(id) ==
  /\ evSet' = CancelSet(active_requests, evSet, id)
  /\ cancelRet' = CancelFound(active_requests, id)
  /\ asked' = [c \in Calls |->
       IF rid[c] = id /\ pc[c] \in {"wait", "open", "next"}
       THEN IF id \in DOMAIN active_requests /\ active_requests[id] = c
            THEN "hit"
            ELSE IF asked[c] = "hit" THEN "hit" ELSE "missed"
       ELSE asked[c]]
  /\ UNCHANGED <<active_requests, callVars>>
  /\ UNCHANGED <<sinkVars, classifyVars>>

\* -------------------------------------------- create_chat_completion_stream
\* First pull of the generator: entry, registration, request set-up, up to
\* `await self.client.chat.completions.create(**request)`.
create_chat_completion_stream(c, id) ==
  /\ MayStart(c)
  /\ kind' = [kind EXCEPT ![c] = "stream"]
  /\ rid' = [rid EXCEPT ![c] = id]
  /\ active_requests' = Register(active_requests, id, c)
  /\ evSet' = IF id # NoId THEN NewEvent(evSet, id, c) ELSE evSet
  /\ last_usage' = [last_usage EXCEPT ![c] = InitialUsage]
  /\ pc' = [pc EXCEPT ![c] = "open"]
  /\ log' = Observe(log, c, <<"enter">>)
  /\ UNCHANGED <<up, cancelWon, received, events, usage, outcome, cancelRet, asked,
                 observed, seen, sink, released>>
  /\ UNCHANGED <<sinkVars, classifyVars>>

\* The upstream stream is opened; the generator waits for its first chunk.
StreamOpen(c) ==
  /\ pc[c] = "open"
  /\ pc' = [pc EXCEPT ![c] = "next"]
  /\ UNCHANGED <<active_requests, evSet, kind, rid, up, cancelWon, last_usage,
                 received, events, usage, outcome, cancelRet, asked, observed, seen,
                 sink, released, log>>
  /\ UNCHANGED <<sinkVars, classifyVars>>

\* Opening the stream raises f.
StreamOpenFail(c, f) ==
  /\ pc[c] = "open"
  /\ Fail(c, f, TRUE)
  /\ UNCHANGED <<evSet, kind, rid, received, events, cancelRet>>

\* Upstream produces a chunk while the event found in the registry is set:
\* the 499 is raised before the chunk is yielded.
StreamCancelled(c) ==
  /\ pc[c] = "next"
  /\ received[c] < MaxChunks
  /\ StreamCancelSeen(active_requests, evSet, rid[c])
  /\ received' = [received EXCEPT ![c] = @ + 1]
  /\ Fail(c, Cancelled499, TRUE)
  /\ UNCHANGED <<evSet, kind, rid, events, cancelRet>>

\* a slip: the chunk is yielded twice
StreamChunkTwice(c, u) ==
  /\ pc[c] = "next"
  /\ received[c] < MaxChunks
  /\ ~StreamCancelSeen(active_requests, evSet, rid[c])
  /\ received' = [received EXCEPT ![c] = @ + 1]
  /\ last_usage' = [last_usage EXCEPT ![c] = TrackUsage(@, u)]
  /\ events' = [events EXCEPT ![c] =
       Append(Append(@, ChunkEvent(received[c] + 1)), ChunkEvent(received[c] + 1))]
  /\ seen' = IF c \in observed THEN [seen EXCEPT ![c] = Append(@, u)] ELSE seen
  /\ UNCHANGED <<active_requests, evSet, pc, kind, rid, up, cancelWon, usage,
                 outcome, cancelRet, asked, observed, sink, released, log>>
  /\ UNCHANGED <<sinkVars, classifyVars>>

\* Upstream produces a chunk carrying usage option u and the check passes:
\* usage tracking and the yield.  The generator stays suspended at the yield
\* until the consumer pulls again; "next" stands for both the yield and the
\* wait for the following chunk.
StreamChunk(c, u) ==
  /\ pc[c] = "next"
  /\ received[c] < MaxChunks
  /\ ~StreamCancelSeen(active_requests, evSet, rid[c])
  /\ received' = [received EXCEPT ![c] = @ + 1]
  /\ last_usage' = [last_usage EXCEPT ![c] = TrackUsage(@, u)]
  /\ events' = [events EXCEPT ![c] = Append(@, ChunkEvent(received[c] + 1))]
  /\ seen' = IF c \in observed THEN [seen EXCEPT ![c] = Append(@, u)] ELSE seen
  /\ UNCHANGED <<active_requests, evSet, pc, kind, rid, up, cancelWon, usage,
                 outcome, cancelRet, asked, observed, sink, released, log>>
  /\ UNCHANGED <<sinkVars, classifyVars>>

\* a slip: the sentinel is sent from a cleanup block, also after a failure
StreamFailThenDone(c, f) ==
  /\ pc[c] = "next"
  /\ events' = [events EXCEPT ![c] = Append(@, DoneEvent)]
  /\ Fail(c, f, TRUE)
  /\ UNCHANGED <<evSet, kind, rid, received, cancelRet>>

\* The upstream iterator raises f instead of producing a chunk.
StreamFail(c, f) ==
  /\ pc[c] = "next"
  /\ Fail(c, f, TRUE)
  /\ UNCHANGED <<evSet, kind, rid, received, events, cancelRet>>

\* a slip: the cancellation check is also made when the iterator ends
StreamEndChecked(c) ==
  /\ pc[c] = "next"
  /\ IF StreamCancelSeen(active_requests, evSet, rid[c])
     THEN /\ Fail(c, Cancelled499, TRUE)
          /\ UNCHANGED <<evSet, kind, rid, received, events, cancelRet>>
     ELSE /\ events' = [events EXCEPT ![c] = Append(@, DoneEvent)]
          /\ pc' = [pc EXCEPT ![c] = "sentinel"]
          /\ UNCHANGED <<active_requests, evSet, kind, rid, up, cancelWon, last_usage,
                         received, usage, outcome, cancelRet, asked, observed, seen,
                         sink, released, log>>
          /\ UNCHANGED <<sinkVars, classifyVars>>

\* The upstream iterator is exhausted: yield "data: [DONE]".
StreamEnd(c) ==
  /\ pc[c] = "next"
  /\ events' = [events EXCEPT ![c] = Append(@, DoneEvent)]
  /\ pc' = [pc EXCEPT ![c] = "sentinel"]
  /\ UNCHANGED <<active_requests, evSet, kind, rid, up, cancelWon, last_usage,
                 received, usage, outcome, cancelRet, asked, observed, seen, sink, released, log>>
  /\ UNCHANGED <<sinkVars, classifyVars>>

\* The consumer pulls after [DONE]: the success tail and the finally clause
\* run and the generator is exhausted.
StreamFinish(c) ==
  /\ pc[c] = "sentinel"
  /\ Succeed(c, last_usage[c], TRUE)
  /\ UNCHANGED <<evSet, kind, rid, received, events, cancelRet>>

\* The consumer closes the generator while it is suspended at a yield:
\* GeneratorExit is no Exception, so only the finally clause runs.
StreamClose(c) ==
  /\ \/ pc[c] = "sentinel"
     \/ pc[c] = "next" /\ events[c] # <<>>
  /\ outcome' = [outcome EXCEPT ![c] = Finally(Closed, active_requests, rid[c])]
  /\ log' = Observe(log, c, ReleaseStep(active_requests, rid[c]))
  /\ UNCHANGED sink
  /\ Leave(c)
  /\ UNCHANGED <<evSet, kind, rid, received, events, usage, cancelRet>>

\* ---------------------------------------------------------- append_usage_tsv
\* Entry up to the with statement: file_exists = os.path.exists(filepath),
\* then the line is formatted.
Prepare(w) ==
  /\ wpc[w] = "idle"
  /\ file_exists' = [file_exists EXCEPT ![w] = file.exists]
  /\ line' = [line EXCEPT ![w] = FormatLine(record[w])]
  /\ wpc' = [wpc EXCEPT ![w] = "formatted"]
  /\ UNCHANGED <<file, file_lock, record, clientVars, classifyVars>>

\* with _file_lock: with open(filepath, "a"): the lock is taken and the file
\* is opened for appending, which creates it when it is absent.
OpenLocked(w) ==
  /\ wpc[w] = "formatted"
  /\ file_lock = NoWriter
  /\ file_lock' = w
  /\ file' = [file EXCEPT !.exists = TRUE]
  /\ wpc' = [wpc EXCEPT ![w] = "locked"]
  /\ UNCHANGED <<record, file_exists, line, clientVars, classifyVars>>

\* if not file_exists: f.write(header); f.write(line); the file is closed
\* and the lock released.
WriteLines(w) ==
  /\ wpc[w] = "locked"
  /\ file' = [file EXCEPT !.lines =
       @ \o (IF file_exists[w] THEN <<>> ELSE <<HeaderLine>>) \o <<line[w]>>]
  /\ file_lock' = NoWriter
  /\ wpc' = [wpc EXCEPT ![w] = "done"]
  /\ UNCHANGED <<record, file_exists, line, clientVars, classifyVars>>

\* open raises (the storage is unavailable): the lock is released and the
\* except clause logs the failure; nothing is written.
OpenFails(w) ==
  /\ wpc[w] = "formatted"
  /\ file_lock = NoWriter
  /\ wpc' = [wpc EXCEPT ![w] = "done"]
  /\ UNCHANGED <<file, file_lock, record, file_exists, line, clientVars, classifyVars>>

\* ------------------------------------------------------------ specification
Next ==
  \/ \E c \in Calls, id \in RequestIds : create_chat_completion(c, id)
  \/ \E c \in Calls : UpstreamDone(c)
  \/ \E c \in Calls : WaitNotify(c)
  \/ \E c \in Calls : WaitBothDone(c)
  \/ \E c \in Calls : WaitResume(c)
  \/ \E c \in Calls : WaitCancelled(c)
  \/ \E c \in Calls, r \in UpResults : WaitFinish(c, r)
  \/ \E c \in Calls, r \in UpResults : AwaitFinish(c, r)
  \/ \E c \in Calls, id \in RequestIds : create_chat_completion_stream(c, id)
  \/ \E c \in Calls : StreamOpen(c)
  \/ \E c \in Calls, f \in Failures : StreamOpenFail(c, f)
  \/ \E c \in Calls : StreamCancelled(c)
  \/ \E c \in Calls, u \in Usages : StreamChunk(c, u)
  \/ \E c \in Calls, f \in Failures : StreamFail(c, f)
  \/ \E c \in Calls : StreamEnd(c)
  \/ \E c \in Calls : StreamFinish(c)
  \/ \E c \in Calls : StreamClose(c)
  \/ \E id \in Ids : cancel_request(id)

Spec == Init /\ [][Next]_vars

\* The same program with one call only, whose chunks are recorded in seen.
InitObserved ==
  /\ active_requests = <<>>
  /\ evSet = [c \in Calls |-> FALSE]
  /\ pc = [c \in Calls |-> IF c = 1 THEN "idle" ELSE "done"]
  /\ kind = [c \in Calls |-> "none"]
  /\ rid = [c \in Calls |-> NoId]
  /\ up = [c \in Calls |-> "pending"]
  /\ cancelWon = [c \in Calls |-> FALSE]
  /\ last_usage = [c \in Calls |-> <<>>]
  /\ received = [c \in Calls |-> 0]
  /\ events = [c \in Calls |-> <<>>]
  /\ usage = [c \in Calls |-> <<>>]
  /\ outcome = [c \in Calls |-> NoOutcome]
  /\ cancelRet = FALSE
  /\ asked = [c \in Calls |-> "no"]
  /\ observed = {1}
  /\ seen = [c \in Calls |-> <<>>]
  /\ sink = [c \in Calls |-> "none"]
  /\ log = [c \in Calls |-> <<>>]
  /\ released = [c \in Calls |-> FALSE]
  /\ SinkAtRest
  /\ ClassifierAtRest

SpecObserved == InitObserved /\ [][Next]_vars

\* Threads calling append_usage_tsv at the same time, on a file that does not
\* exist yet.
SinkRecords == {PlainRecord, [PlainRecord EXCEPT !["error"] = None]}

InitSink ==
  /\ ClientInit
  /\ ClassifierAtRest
  /\ file = Absent
  /\ file_lock = NoWriter
  /\ wpc = [w \in Writers |-> "idle"]
  /\ record \in [Writers -> SinkRecords]
  /\ file_exists = [w \in Writers |-> FALSE]
  /\ line = [w \in Writers |-> <<>>]

NextSink ==
  \/ \E w \in Writers : Prepare(w)
  \/ \E w \in Writers : OpenLocked(w)
  \/ \E w \in Writers : WriteLines(w)
  \/ \E w \in Writers : OpenFails(w)

SpecSink == InitSink /\ [][NextSink]_vars

\* One call of append_usage_tsv, with any record.
InitLine ==
  /\ ClientInit
  /\ ClassifierAtRest
  /\ file = Absent
  /\ file_lock = NoWriter
  /\ wpc = [w \in Writers |-> IF w = 1 THEN "idle" ELSE "done"]
  /\ record \in { [w \in Writers |-> IF w = 1 THEN r ELSE PlainRecord] : r \in Records }
  /\ file_exists = [w \in Writers |-> FALSE]
  /\ line = [w \in Writers |-> <<>>]

SpecLine == InitLine /\ [][NextSink]_vars

\* classify_openai_error applied to any error text.
InitClassify ==
  /\ ClientInit
  /\ SinkAtRest
  /\ error_detail \in ErrorTexts
  /\ classified = <<>>

Classify ==
  /\ classified = <<>>
  /\ classified' = <<classify_openai_error(error_detail)>>
  /\ UNCHANGED <<error_detail, clientVars, sinkVars>>

NextClassify == Classify

SpecClassify == InitClassify /\ [][NextClassify]_vars

\* ------------------------------------------------------------------ claims
Done(c) == pc[c] = "done"
\* Call c ended on the cancellation path: the 499 was raised inside it.
EndedCancelled(c) == Done(c) /\ outcome[c].st = "raised" /\ outcome[c].exc = Cancelled499
ZeroTokens(r) ==
  /\ r.input_tokens = 0 /\ r.output_tokens = 0
  /\ r.cache_read_input_tokens = 0 /\ r.total_tokens = 0

\* C1: a non-streaming call whose cancellation signal won the race raises
\* CancelledByCaller, status 499, to its caller.
C1_CancelledRaises499 ==
  \A c \in Calls :
    (kind[c] = "completion" /\ EndedCancelled(c) /\ up[c] = "abandoned")
      => outcome[c].status = 499

\* C2: a streaming call that finds the signal set at a chunk-boundary check
\* propagates CancelledByCaller, status 499, to its consumer.
C2_StreamCancelledRaises499 ==
  \A c \in Calls :
    (kind[c] = "stream" /\ EndedCancelled(c)) => outcome[c].status = 499

\* C4: every call that fails (cancellation, auth, rate limit, bad request,
\* API error, anything else) has emitted exactly one usage record, with
\* status error and all token counts 0, and no success record.
C4_OneErrorRecordPerFailure ==
  \A c \in Calls :
    (Done(c) /\ outcome[c].st = "raised") =>
      /\ Len(usage[c]) = 1
      /\ usage[c][1].status = "error"
      /\ ZeroTokens(usage[c][1])
      /\ usage[c][1].is_stream = (kind[c] = "stream")

\* C4 witness: both a cancelled call and a call failed by upstream are over.
C4_Witness ==
  \E c, d \in Calls :
    /\ EndedCancelled(c) /\ Len(usage[c]) = 1
    /\ Done(d) /\ outcome[d].st = "raised" /\ outcome[d].exc = "ratelimit"
    /\ kind[d] = "stream" /\ Len(events[d]) = 1

\* C5: every call that completes successfully has emitted exactly one usage
\* record, with status success, an empty error tag and
\* total_tokens = input_tokens + output_tokens, and no error record.
C5_OneSuccessRecordPerSuccess ==
  \A c \in Calls :
    (Done(c) /\ outcome[c].st = "returned") =>
      /\ Len(usage[c]) = 1
      /\ usage[c][1].status = "success"
      /\ usage[c][1].error = [tag |-> "", msg |-> ""]
      /\ usage[c][1].total_tokens = usage[c][1].input_tokens + usage[c][1].output_tokens
      /\ usage[c][1].is_stream = (kind[c] = "stream")

\* C5 witness: a streaming and a non-streaming call both succeeded with
\* non-zero input and output counts.
C5_Witness ==
  \E c, d \in Calls :
    /\ kind[c] = "stream" /\ kind[d] = "completion"
    /\ \A e \in {c, d} :
         /\ Done(e) /\ outcome[e].st = "returned" /\ Len(usage[e]) = 1
         /\ usage[e][1].input_tokens = 1 /\ usage[e][1].output_tokens = 1
         /\ usage[e][1].total_tokens = 2

\* The signal call c registered is the one stored under its id.
OwnEntry(c) ==
  rid[c] \in DOMAIN active_requests /\ active_requests[rid[c]] = c

\* Call c has just ended on the cancellation path with an error record.
CancelPathEnd(c) ==
  /\ EndedCancelled(c)
  /\ Len(usage[c]) = 1 /\ usage[c][1].status = "error"

\* Upstream hands a chunk to streaming call c in this step (the check runs).
ChunkArrives(c) == kind[c] = "stream" /\ pc[c] = "next" /\ received'[c] = received[c] + 1
\* Non-streaming call c ends in this step.
CompletionEnds(c) == kind[c] = "completion" /\ pc[c] # "done" /\ pc'[c] = "done"
\* Nothing more is emitted or recorded for a call that is over.
Final(c) ==
  pc[c] = "done" =>
    events'[c] = events[c] /\ usage'[c] = usage[c] /\ outcome'[c] = outcome[c]

C6_ReleasedAtTerminal ==
  /\ \A c \in Calls : (Done(c) /\ rid[c] # NoId) => ~OwnEntry(c)
  /\ \A id \in Ids :
       ((\E c \in Calls : Done(c) /\ rid[c] = id)
          /\ (\A c \in Calls : rid[c] = id => ~InFlight(c)))
       => /\ id \notin DOMAIN active_requests
          /\ CancelFound(active_requests, id) = FALSE
          /\ CancelSet(active_requests, evSet, id) = evSet

\* C6 witness: calls under one id ended, one cancelled and one by an
\* upstream failure, and a cancel_request made afterwards returned false.
C6_Witness ==
  \E c, d \in Calls :
    /\ rid[c] # NoId /\ rid[d] = rid[c]
    /\ EndedCancelled(c) /\ evSet[c]
    /\ Done(d) /\ outcome[d].st = "raised" /\ outcome[d].exc = "auth"
    /\ cancelRet = FALSE

\* C7: every request id with a call in flight has a signal stored under it,
\* also while two calls share the id and after one of them ended.
C7_OneSignalPerActiveId ==
  \A id \in Ids :
    (\E c \in Calls : InFlight(c) /\ rid[c] = id) => id \in DOMAIN active_requests

\* C8: a call that registers an id (used before or not) starts with its own
\* signal stored under the id and not set, and a signal becomes set only by
\* a cancel_request that finds it under its id while its call is in flight:
\* no cancel_request made before the registration can cancel the call.
C8_FreshSignalOnRegistration ==
  [][\A c \in Calls :
       /\ (pc[c] = "idle" /\ pc'[c] # "idle" /\ rid'[c] # NoId) =>
             /\ ~evSet'[c]
             /\ rid'[c] \in DOMAIN active_requests'
             /\ active_requests'[rid'[c]] = c
       /\ (~evSet[c] /\ evSet'[c]) =>
             /\ InFlight(c) /\ OwnEntry(c)
             /\ cancelRet' /\ pc' = pc]_vars

\* C8 witness: a call is in flight with an unset signal under the id of an
\* earlier call that was cancelled and is over.
C8_Witness ==
  \E c, d \in Calls :
    /\ c # d /\ rid[c] # NoId /\ rid[d] = rid[c]
    /\ EndedCancelled(c) /\ evSet[c]
    /\ InFlight(d) /\ OwnEntry(d) /\ ~evSet[d]

\* C9: cancel_request(id) with nothing stored under id returns false and
\* changes neither the registry nor any signal nor any call; with a signal
\* stored under id it sets that signal, returns true and changes nothing
\* else.
C9_CancelRequestEffect ==
  [][\A id \in Ids :
       cancel_request(id) =>
         /\ UNCHANGED <<active_requests, callVars>>
         /\ IF id \in DOMAIN active_requests
            THEN /\ cancelRet' = TRUE
                 /\ evSet' = [evSet EXCEPT ![active_requests[id]] = TRUE]
            ELSE /\ cancelRet' = FALSE
                 /\ evSet' = evSet]_vars

\* C9 witness: a signal was set by one cancel_request, a later one returned
\* false, and another call is in flight with its signal unset.
C9_Witness ==
  \E c, d \in Calls :
    /\ evSet[c] /\ cancelRet = FALSE
    /\ InFlight(d) /\ OwnEntry(d) /\ ~evSet[d]

\* C10: a streaming call whose upstream ends after n chunks without
\* cancellation or failure has delivered exactly the n chunks, each once and
\* in upstream order, then one [DONE] as the last event.
C10_ChunksThenDone ==
  \A c \in Calls :
    (kind[c] = "stream" /\ (pc[c] = "sentinel" \/ (Done(c) /\ outcome[c].st = "returned")))
      => /\ Len(events[c]) = received[c] + 1
         /\ \A k \in 1..received[c] : events[c][k] = [data |-> "chunk", seq |-> k]
         /\ events[c][received[c] + 1] = [data |-> "[DONE]", seq |-> 0]

\* C10 witness: a stream of MaxChunks chunks ended with success.
C10_Witness ==
  \E c \in Calls :
    /\ kind[c] = "stream" /\ Done(c) /\ outcome[c].st = "returned"
    /\ received[c] = MaxChunks /\ Len(events[c]) = MaxChunks + 1

\* The usage block of the last chunk of s that carried one, as an option.
LastCarried(s) ==
  IF \E i \in DOMAIN s : s[i] # <<>>
  THEN s[CHOOSE i \in DOMAIN s : s[i] # <<>> /\ \A j \in DOMAIN s : j > i => s[j] = <<>>]
  ELSE <<>>

StreamSucceeded(c) ==
  Done(c) /\ kind[c] = "stream" /\ outcome[c].st = "returned"

\* C11: the record of a successful stream carries the token counts of the
\* last chunk that carried a usage block, wherever that chunk was in the
\* stream; earlier blocks are replaced, not summed; with no usage block at
\* all the counts are 0.
C11_StreamUsageIsLastCarried ==
  \A c \in observed :
    StreamSucceeded(c) =>
      /\ Len(usage[c]) = 1
      /\ LET r == usage[c][1]
             b == LastCarried(seen[c])
             i == IF b = <<>> THEN 0 ELSE b[1].prompt_tokens
             o == IF b = <<>> THEN 0 ELSE b[1].completion_tokens
         IN /\ r.input_tokens = i
            /\ r.output_tokens = o
            /\ r.total_tokens = i + o
            /\ r.status = "success"

\* A successful stream of two chunks with different usage blocks: the
\* record has the counts of the second.
C11_Witness ==
  \E c \in observed :
    /\ StreamSucceeded(c)
    /\ Len(seen[c]) = 2
    /\ seen[c][1] # <<>> /\ seen[c][2] # <<>>
    /\ seen[c][1][1].prompt_tokens = 1 /\ seen[c][1][1].completion_tokens = 0
    /\ seen[c][2][1].prompt_tokens = 0 /\ seen[c][2][1].completion_tokens = 1
    /\ usage[c][1].input_tokens = 0 /\ usage[c][1].output_tokens = 1
    /\ usage[c][1].total_tokens = 1

\* What the consumer of stream c has been sent.
Sent(c) == { events[c][i] : i \in DOMAIN events[c] }

ErrorPath(c) ==
  /\ kind[c] = "stream"
  /\ \/ outcome[c].st = "raised"
     \/ \E i \in DOMAIN usage[c] : usage[c][i].status = "error"

\* C12: a stream on which an error has propagated or an error record has
\* been emitted (open failure, mid-stream failure, cancellation) has not
\* sent [DONE] to its consumer, then or at any later time.
C12_NoDoneOnErrorPath ==
  \A c \in Calls : ErrorPath(c) => DoneEvent \notin Sent(c)

\* A stream that ended on an error path after a chunk was yielded: its
\* consumer got the chunk and no [DONE].
C12_Witness ==
  \E c \in Calls :
    /\ Done(c) /\ ErrorPath(c)
    /\ outcome[c].exc \in Failures \cup {Cancelled499}
    /\ Len(events[c]) >= 1
    /\ usage[c][1].status = "error"
    /\ DoneEvent \notin Sent(c)

\* The upstream call of c fails with f, on either path.
UpstreamFails(c, f) ==
  \/ WaitFinish(c, UpErr(f))
  \/ AwaitFinish(c, UpErr(f))
  \/ StreamOpenFail(c, f)
  \/ StreamFail(c, f)

\* The status and the tag the claim gives for each kind of failure.
StatusAndTag(f) ==
  CASE f = "auth" -> <<401, "auth">>
    [] f = "ratelimit" -> <<429, "ratelimit">>
    [] f = "badrequest" -> <<400, "badrequest">>
    [] f = "api" -> <<UpstreamStatus, "api">>
    [] f = "apinostatus" -> <<500, "api">>
    [] f = "other" -> <<500, "unexpected">>

\* C13: when the upstream call fails, the status raised and the tag of the
\* usage record follow from the kind of failure alone (401 auth, 429
\* ratelimit, 400 badrequest, upstream status or 500 api, 500 unexpected),
\* the tag is followed by the raw message, and streaming and non-streaming
\* calls map alike.
C13_StatusAndTagByFailure ==
  [][\A c \in Calls, f \in Failures :
       UpstreamFails(c, f) =>
         /\ outcome'[c].st = "raised"
         /\ outcome'[c].status = StatusAndTag(f)[1]
         /\ Len(usage'[c]) = 1
         /\ usage'[c][1].status = "error"
         /\ usage'[c][1].error = [tag |-> StatusAndTag(f)[2], msg |-> f]]_vars

\* A stream and a non-streaming call that both failed with a generic API
\* error carrying a status: both raised that status with an 'api' record.
C13_Witness ==
  \E c, d \in Calls :
    /\ Done(c) /\ kind[c] = "stream"
    /\ Done(d) /\ kind[d] = "completion"
    /\ \A e \in {c, d} :
         /\ outcome[e] = Raised(UpstreamStatus, "api")
         /\ usage[e][1].error = [tag |-> "api", msg |-> "api"]

\* C14: whether append_usage_tsv wrote the record of a call or failed, the
\* call's primary outcome is the one its upstream behaviour gives: a success
\* is returned (a stream has sent [DONE]), a failure is raised with its own
\* exception and without [DONE], and the registration is released.
C14_SinkFailureKeepsOutcome ==
  \A c \in observed :
    Done(c) /\ sink[c] \in {"written", "failed"} =>
      /\ Len(usage[c]) = 1
      /\ LET r == usage[c][1]
         IN /\ r.status = "success" =>
                 /\ outcome[c].st = "returned"
                 /\ kind[c] = "stream" =>
                      /\ Len(events[c]) = received[c] + 1
                      /\ events[c][Len(events[c])] = DoneEvent
                 /\ kind[c] = "completion" =>
                      /\ r.input_tokens = Field(outcome[c].usage, "prompt_tokens")
                      /\ r.output_tokens = Field(outcome[c].usage, "completion_tokens")
            /\ r.status = "error" =>
                 /\ outcome[c] = Raised(ExceptStatus(r.error.msg), r.error.msg)
                 /\ DoneEvent \notin Sent(c)
      /\ rid[c] \notin DOMAIN active_requests

\* A call with an id whose usage write failed, and which all the same
\* returned its completion or ended its stream after [DONE].
C14_Witness ==
  \E c \in observed :
    /\ Done(c) /\ sink[c] = "failed" /\ rid[c] # NoId
    /\ usage[c][1].status = "success"
    /\ \/ kind[c] = "completion" /\ outcome[c].usage # <<>>
       \/ kind[c] = "stream" /\ DoneEvent \in Sent(c)
    /\ outcome[c].st = "returned"

\* The steps of a call that has ended, in the order the claim gives; a call
\* without an id has no registration to release.
OrderedSteps(id) ==
  { <<"enter", l, "usage">> \o (IF id = NoId THEN <<>> ELSE <<"release">>) :
      l \in {"success", "fail"} }

\* C15: the steps of a call come in a fixed order, each at most once: the
\* enter line, one success or failure line, the usage record, the release;
\* the release never comes before the usage record.
C15_FixedStepOrder ==
  \A c \in observed :
    /\ InFlight(c) => log[c] = <<"enter">>
    /\ Done(c) => log[c] \in OrderedSteps(rid[c])

\* C16: however the callers of append_usage_tsv interleave on a file that
\* did not exist, the header is the first line of the file and occurs once,
\* and every later line is one complete data row.
C16_HeaderOnceAndFirst ==
  file.lines # <<>> =>
    /\ file.lines[1] = HeaderLine
    /\ \A i \in 2..Len(file.lines) :
         /\ file.lines[i] # HeaderLine
         /\ \E w \in Writers : file.lines[i] = FormatLine(record[w])

\* The fields of a text, split at its tabs.
RECURSIVE SplitTab(_)
SplitTab(t) ==
  IF \A i \in DOMAIN t : t[i] # TAB THEN <<t>>
  ELSE LET i == CHOOSE k \in DOMAIN t : t[k] = TAB /\ \A j \in 1..(k - 1) : t[j] # TAB
       IN <<SubSeq(t, 1, i - 1)>> \o SplitTab(SubSeq(t, i + 1, Len(t)))

\* l is a data row for record r: one newline, at the end; before it 13
\* fields, the i-th being the value of the i-th header column ("" when it
\* is missing or None) with every tab and newline turned into a space.
DataRow(l, r) ==
  /\ Len(l) >= 1
  /\ l[Len(l)] = NL
  /\ Cardinality({ i \in DOMAIN l : l[i] = NL }) = 1
  /\ LET fs == SplitTab(SubSeq(l, 1, Len(l) - 1))
     IN /\ Len(fs) = 13
        /\ Len(ColumnNames) = 13
        /\ \A i \in DOMAIN fs :
             LET v == r[ColumnNames[i]]
                 text == IF v \in {Missing, None} THEN <<>> ELSE v.t
             IN /\ Len(fs[i]) = Len(text)
                /\ \A j \in DOMAIN text :
                     fs[i][j] = IF text[j] \in {TAB, NL} THEN SP ELSE text[j]

\* C17: the line append_usage_tsv formats and writes for a record, whatever
\* fields are missing, None, or hold tabs and newlines, has exactly 13
\* tab-separated fields in header-column order and one newline, at its end.
C17_ThirteenFieldsOneNewline ==
  /\ \A w \in Writers :
       wpc[w] \in {"formatted", "locked"} => DataRow(line[w], record[w])
  /\ \A i \in DOMAIN file.lines :
       \/ i = 1 /\ file.lines[i] = HeaderLine
       \/ \E w \in Writers : DataRow(file.lines[i], record[w])

\* A written row of a record with a tab or newline in one field and a
\* missing or None field.
C17_Witness ==
  /\ Len(file.lines) = 2
  /\ \E w \in Writers, k1, k2 \in Columns :
       /\ wpc[w] = "done"
       /\ file.lines[2] = line[w]
       /\ record[w][k1] \in {Missing, None}
       /\ \E j \in DOMAIN record[w][k2].t : record[w][k2].t[j] \in {TAB, NL}

\* Text t holds phrase p in whatever case.
Has(t, p) == \E i \in DOMAIN t : t[i].w = p

\* The rules in the order of the claim: which match t, and their messages.
RuleMatches(t) ==
  <<Has(t, "unsupported_country_region_territory")
      \/ Has(t, "country, region, or territory not supported"),
    Has(t, "invalid_api_key") \/ Has(t, "unauthorized"),
    Has(t, "rate_limit") \/ Has(t, "quota"),
    Has(t, "model") /\ (Has(t, "not found") \/ Has(t, "does not exist")),
    Has(t, "billing") \/ Has(t, "payment")>>
RuleAdvice == <<RegionAdvice, KeyAdvice, RateAdvice, ModelAdvice, BillingAdvice>>

\* C18: classify_openai_error returns a value for every text; the rules are
\* tested case-insensitively in the order region, credentials, rate limit,
\* model not found, billing, the first one that matches gives the message,
\* and a text no rule matches is returned as it is.
C18_FirstMatchingRuleWins ==
  classified # <<>> =>
    LET m == RuleMatches(error_detail)
    IN IF \E i \in DOMAIN m : m[i]
       THEN LET first == CHOOSE i \in DOMAIN m : m[i] /\ \A j \in 1..(i - 1) : ~m[j]
            IN classified[1] = [advice |-> RuleAdvice[first], text |-> <<>>]
       ELSE classified[1] = [advice |-> "", text |-> error_detail]

\* A text with an upper-case rate-limit phrase, a credentials phrase after
\* it and a billing phrase: the credentials message is returned.
C18_Witness ==
  /\ classified = <<Advice(KeyAdvice)>>
  /\ Len(error_detail) = 3
  /\ error_detail[1] = [w |-> "quota", upper |-> TRUE]
  /\ error_detail[2].w = "unauthorized"
  /\ error_detail[3].w = "billing"

\* Call c ends in this step: its finally clause runs.
Ends(c) == pc[c] # "done" /\ pc'[c] = "done"

\* C19: a release of an id that is absent from the registry leaves the
\* registry as it is and raises nothing, so the call ends as it would have;
\* and right after any release a second release of the id changes nothing.
C19_ReleaseIdempotent ==
  [][\A c \in Calls :
       Ends(c) =>
         /\ rid[c] \notin DOMAIN active_requests =>
              /\ active_requests' = active_requests
              /\ outcome'[c].st \in {"returned", "raised", "closed"}
         /\ rid[c] \notin DOMAIN active_requests'
         /\ Release(active_requests', rid[c]) = active_requests']_vars

\* Two calls under one id have ended: one deleted the entry, the other
\* found the id absent in its finally clause and returned its completion.
C19_Witness ==
  \E c, d \in Calls :
    /\ Done(c) /\ Done(d)
    /\ rid[c] = rid[d] /\ rid[c] # NoId
    /\ released[d] /\ ~released[c]
    /\ outcome[c].st = "returned"

\* C20: however the consumer drives a stream (drains it, stops after
\* [DONE], closes it after some chunk), once the call has ended exactly one
\* usage record has been emitted for it and its registration has been
\* released, once.
C20_StreamAccountedHoweverDriven ==
  \A c \in observed :
    kind[c] = "stream" /\ Done(c) =>
      /\ Len(usage[c]) = 1
      /\ rid[c] # NoId => released[c] /\ rid[c] \notin DOMAIN active_requests

\* C21: a streaming call notices a cancellation only in a step in which a
\* chunk arrives.  A cancel_request step changes nothing of the call; no
\* other step ends it on the cancellation path; when the upstream stream
\* ends, [DONE] is sent whatever the signal says, and the call then
\* completes as a success with a success record.
C21_CancelSeenOnlyAtChunk ==
  [][\A c \in Calls :
       kind[c] = "stream" /\ InFlight(c) =>
         /\ (\E id \in Ids : cancel_request(id)) =>
              /\ pc'[c] = pc[c] /\ events'[c] = events[c]
              /\ usage'[c] = usage[c] /\ outcome'[c] = outcome[c]
         /\ ~ChunkArrives(c) => ~EndedCancelled(c)'
         /\ (pc[c] = "next" /\ pc'[c] = "sentinel") =>
              events'[c] = Append(events[c], DoneEvent)
         /\ (pc[c] = "sentinel" /\ pc'[c] = "done" /\ outcome'[c].st # "closed") =>
              /\ outcome'[c].st = "returned"
              /\ Len(usage'[c]) = 1 /\ usage'[c][1].status = "success"]_vars

\* A stream whose own signal was set while it waited for a chunk after its
\* first one; the upstream stream ended and [DONE] was sent.
C21_Witness ==
  \E c \in Calls :
    /\ kind[c] = "stream" /\ pc[c] = "sentinel"
    /\ asked[c] = "hit" /\ evSet[c] /\ OwnEntry(c)
    /\ received[c] >= 1
    /\ events[c][Len(events[c])] = DoneEvent

\* C22: a call reacts only to the signal it registered.  cancel_request(id)
\* sets only the signal stored under id; a call ends on the cancellation
\* path only if its own signal is set; and a call that ends does not remove
\* the entry another call registered.
C22_OwnSignalOnly ==
  [][\A c \in Calls :
       /\ \A id \in Ids :
            (cancel_request(id) /\ evSet'[c] # evSet[c]) => OwnEntry(c) /\ rid[c] = id
       /\ (Ends(c) /\ EndedCancelled(c)') => evSet[c]
       /\ \A d \in Calls \ {c} : (Ends(c) /\ OwnEntry(d)) => OwnEntry(d)']_vars

\* Call c was issued without a request id.
Anonymous(c) == kind[c] # "none" /\ rid[c] = NoId

\* C23: a call without a request id leaves the registry as it is when it
\* starts and when it ends, awaits the upstream call without a race (a
\* stream makes no cancellation check), is left untouched by every
\* cancel_request, has no signal set and never ends cancelled.
C23_NoIdNoRegistry ==
  [][\A c \in Calls :
       /\ (pc[c] = "idle" /\ Anonymous(c)') =>
            /\ active_requests' = active_requests
            /\ pc'[c] \in {"await", "open"}
       /\ Anonymous(c) =>
            /\ pc[c] \notin {"wait", "notified", "joined"}
            /\ ~evSet[c] /\ ~evSet'[c]
            /\ ~EndedCancelled(c)'
            /\ Ends(c) => active_requests' = active_requests /\ ~released'[c]
            /\ (\E id \in Ids : cancel_request(id)) =>
                 /\ pc'[c] = pc[c] /\ events'[c] = events[c]
                 /\ usage'[c] = usage[c] /\ outcome'[c] = outcome[c]]_vars

\* A call without an id has returned its completion; another call's
\* signal has been set by cancel_request and is still stored.
C23_Witness ==
  \E c, d \in Calls :
    /\ Anonymous(c) /\ Done(c) /\ kind[c] = "completion"
    /\ outcome[c].st = "returned" /\ ~released[c]
    /\ InFlight(d) /\ OwnEntry(d) /\ evSet[d]
====
